---- MODULE Spec2Model ----
(***************************************************************************)
(* Model of the monuments web server (dynamic_server.mjs): the request     *)
(* handlers of the Express application over the read-only SQLite table     *)
(* "monuments".  Text is modelled as sequences of one-character strings so *)
(* that split, trim, includes, LIKE, Number and the default Array sort are *)
(* computed character by character, as the JavaScript does.                *)
(***************************************************************************)
EXTENDS Integers, Sequences, FiniteSets, TLC

VARIABLES db, resp, req

vars == <<db, resp, req>>

(***************************************************************************)
(* Bounds.                                                                 *)
(***************************************************************************)
\* largest number of rows of the monuments table
MaxRecords == 3

\* largest number of rows of the table while another process rewrites it
MaxSnapshotRecords == 1

(***************************************************************************)
(* Characters.  Chars lists the characters the model uses in ascending     *)
(* UTF-16 code unit order; Code gives the rank that the default sort and   *)
(* the string comparison of JavaScript compare by.                         *)
(***************************************************************************)
Chars ==
  << " ", ",", "/",
     "0", "1", "2", "3", "4", "5", "6", "7", "8", "9",
     "A", "B", "C", "D", "E", "F", "G", "H", "I", "J", "K", "L", "M",
     "N", "O", "P", "Q", "R", "S", "T", "U", "V", "W", "X", "Y", "Z",
     "a", "b", "c", "d", "e", "f", "g", "h", "i", "j", "k", "l", "m",
     "n", "o", "p", "q", "r", "s", "t", "u", "v", "w", "x", "y", "z" >>

Code(c) == CHOOSE i \in 1..Len(Chars) : Chars[i] = c

Digits == <<"0", "1", "2", "3", "4", "5", "6", "7", "8", "9">>

IsDigit(c) == \E i \in 1..10 : Digits[i] = c

DigitVal(c) == (CHOOSE i \in 1..10 : Digits[i] = c) - 1

IsSpace(c) == c = " "

\* SQL NULL in a text column, and JavaScript undefined: one-element
\* sequences that are not text (their element is not a single character)
Null == <<"NULL">>

Undefined == <<"undefined">>

\* SQL NULL in the integer column year (SQLite orders NULL before every
\* number; the years of the table are >= 0)
YearNull == -1

\* NaN: an integer that is no year, month, day, index or day count of the
\* model
NaN == -999999

\* v || "" for a text column value
OrEmpty(v) == IF v = Null \/ v = Undefined \/ v = <<>> THEN <<>> ELSE v

\* String(v)
String(v) ==
  IF v = Null THEN <<"n", "u", "l", "l">>
  ELSE IF v = Undefined THEN <<"u", "n", "d", "e", "f", "i", "n", "e", "d">>
  ELSE v

\* String.prototype.includes
Includes(s, sub) ==
  \E i \in 0..(Len(s) - Len(sub)) : SubSeq(s, i + 1, i + Len(sub)) = sub

\* String.prototype.split(sep) for a one-character separator:
\* "".split(sep) is [""], and n separators give n + 1 fragments
Split(s, sep) ==
  LET F[i \in 0..Len(s)] ==
        IF i = 0 THEN << <<>> >>
        ELSE LET p == F[i - 1]
             IN  IF s[i] = sep THEN Append(p, <<>>)
                 ELSE [p EXCEPT ![Len(p)] = Append(@, s[i])]
  IN  F[Len(s)]

MinOfSet(S) == CHOOSE x \in S : \A y \in S : x <= y

MaxOfSet(S) == CHOOSE x \in S : \A y \in S : y <= x

\* the text from the first to the last of the positions keep
Between(s, keep) ==
  IF keep = {} THEN <<>> ELSE SubSeq(s, MinOfSet(keep), MaxOfSet(keep))

\* String.prototype.trim
Trim(s) == Between(s, {i \in 1..Len(s) : ~IsSpace(s[i])})

\* Array.prototype.flatMap / filter(Boolean) helpers
RECURSIVE Flatten(_)
Flatten(ss) == IF ss = <<>> THEN <<>> ELSE Head(ss) \o Flatten(Tail(ss))

FilterNonEmpty(ss) == SelectSeq(ss, LAMBDA s : s # <<>>)

Range(s) == {s[i] : i \in 1..Len(s)}

\* a Set that keeps repeated values
SetOfKeepAll(arr) == arr

\* [...new Set(arr)]: the first occurrence of every value, in order
SetOf(arr) ==
  LET F[i \in 0..Len(arr)] ==
        IF i = 0 THEN <<>>
        ELSE LET seen == F[i - 1]
             IN  IF \E j \in 1..Len(seen) : seen[j] = arr[i]
                 THEN seen ELSE Append(seen, arr[i])
  IN  F[Len(arr)]

\* the comparison of the default sort: strings by UTF-16 code units
StrLess(a, b) ==
  \E i \in 1..(Len(a) + 1) :
     /\ i <= Len(b)
     /\ \A j \in 1..(i - 1) : a[j] = b[j]
     /\ (i = Len(a) + 1 \/ Code(a[i]) < Code(b[i]))

CompareText(s, t) ==
  IF StrLess(s, t) THEN -1 ELSE IF StrLess(t, s) THEN 1 ELSE 0

DefaultCompare(a, b) == CompareText(String(a), String(b))

(***************************************************************************)
(* Numbers and dates.                                                      *)
(***************************************************************************)
\* the value of a text of decimal digits (0 for the empty text)
DecimalValue(t) ==
  LET F[i \in 0..Len(t)] == IF i = 0 THEN 0 ELSE 10 * F[i - 1] + DigitVal(t[i])
  IN  F[Len(t)]

\* Number(v), t being the trimmed text of v
NumberOfText(v, t) ==
  IF v = Undefined \/ (\E i \in 1..Len(t) : ~IsDigit(t[i])) THEN NaN
  ELSE DecimalValue(t)

\* Number(v) for text, null and undefined: the trimmed text is empty (0) or
\* all digits (their value); any other text and undefined give NaN
Number(v) == NumberOfText(v, Trim(String(OrEmpty(v))))

\* x || d for a number x: NaN and 0 are falsy
OrDefault(x, d) == IF x = NaN \/ x = 0 THEN d ELSE x

\* Number(r.year) for the integer column year: Number(null) is 0
NumberOfYear(y) == IF y = YearNull THEN 0 ELSE y

\* parts[i] of a destructured array, 0-based: undefined past the end
Part(parts, i) == IF i + 1 <= Len(parts) THEN parts[i + 1] ELSE Undefined

\* ECMAScript DayFromYear: the day number of 1 January of year y
DayFromYear(y) ==
  365 * (y - 1970) + ((y - 1969) \div 4) - ((y - 1901) \div 100)
    + ((y - 1601) \div 400)

InLeapYear(y) == (y % 4 = 0) /\ ((y % 100 # 0) \/ (y % 400 = 0))

\* days of the year before month index m (0-based)
DaysBeforeMonth(y, m) ==
  <<0, 31, 59, 90, 120, 151, 181, 212, 243, 273, 304, 334>>[m + 1]
    + (IF m >= 2 /\ InLeapYear(y) THEN 1 ELSE 0)

\* new Date(y, m, d).getTime() in days (getTime is in milliseconds of local
\* time; a day is 86400000 of them).  A year 0..99 means 1900 + year, a
\* month index outside 0..11 carries into the year and a day outside the
\* month carries into the following months; a NaN argument gives NaN.
DateGetTime(y, m, d) ==
  LET yy == IF 0 <= y /\ y <= 99 THEN 1900 + y ELSE y
      ym == yy + (m \div 12)
      mn == m % 12
  IN  IF y = NaN \/ m = NaN \/ d = NaN THEN NaN
      ELSE DayFromYear(ym) + DaysBeforeMonth(ym, mn) + d - 1

\* a - b of JavaScript numbers
Minus(a, b) == IF a = NaN \/ b = NaN THEN NaN ELSE a - b

\* parse of sortNewToOld: the ordering key of a row
\* const [mm, dd] = String(r.date || "").split("/")
DateParts(r) == Split(String(OrEmpty(r.date)), "/")

\* const y = Number(r.year) || 0
ParseYear(r) == OrDefault(NumberOfYear(r.year), 0)

\* const m = Number(mm) || 1
ParseMonth(r) == OrDefault(Number(Part(DateParts(r), 0)), 1)

\* const d = Number(dd) || 1
ParseDay(r) == OrDefault(Number(Part(DateParts(r), 1)), 1)

\* a parse without the defaults: new Date(r.year, mm - 1, dd)
parseNoDefaults(r) ==
  DateGetTime(NumberOfYear(r.year), Minus(Number(Part(DateParts(r), 0)), 1),
              Number(Part(DateParts(r), 1)))

\* return new Date(y, m - 1, d).getTime()
parse(r) == DateGetTime(ParseYear(r), Minus(ParseMonth(r), 1), ParseDay(r))

\* a comparator that orders oldest first
sortNewToOldAscending(a, b) == Minus(parse(a), parse(b))

sortNewToOld(a, b) == Minus(parse(b), parse(a))

sortOldToNew(a, b) == sortNewToOld(b, a)

\* the call of a comparator passed to sort: the functions sortNewToOld and
\* sortOldToNew, or none (the default comparison)
Call(cmp, a, b) ==
  CASE cmp = "sortNewToOld" -> sortNewToOld(a, b)
    [] cmp = "sortOldToNew" -> sortOldToNew(a, b)
    [] cmp = "default" -> DefaultCompare(a, b)

\* a comparator result as sort reads it: NaN counts as +0
NaNToZero(v) == IF v = NaN THEN 0 ELSE v

Order(cmp, a, b) == NaNToZero(Call(cmp, a, b))

\* the number of elements of the sorted t that stay before x: x goes after
\* the last element that does not order after it
InsertPosition(t, x, cmp) ==
  MaxOfSet({j \in 0..Len(t) : j = 0 \/ Order(cmp, t[j], x) <= 0})

InsertAt(t, x, p) == SubSeq(t, 1, p) \o <<x>> \o SubSeq(t, p + 1, Len(t))

\* Array.prototype.sort(cmp): the sort is stable, so for a consistent
\* comparator the result is that of a stable insertion sort
ArraySort(arr, cmp) ==
  LET F[i \in 0..Len(arr)] ==
        IF i = 0 THEN <<>>
        ELSE InsertAt(F[i - 1], arr[i], InsertPosition(F[i - 1], arr[i], cmp))
  IN  F[Len(arr)]

\* arr.sort() without a comparator
DefaultSort(arr) == ArraySort(arr, "default")


(***************************************************************************)
(* The table.  A row carries the columns the handlers compute with:        *)
(* pres_or_congress, states, date and year.  RecordPool is the set of rows *)
(* a table is drawn from: full and partial dates, years with gaps, unknown *)
(* years (0 and NULL), owners with and without the text "Congress", and    *)
(* region lists with several names, blanks and empty fragments.            *)
(***************************************************************************)
Row(p, s, d, y) == [pres_or_congress |-> p, states |-> s, date |-> d, year |-> y]

Congress == <<"C", "o", "n", "g", "r", "e", "s", "s">>

Taft == <<"T", "a", "f", "t">>

Ford == <<"F", "o", "r", "d">>

Iowa == <<"I", "o", "w", "a">>

Utah == <<"U", "t", "a", "h">>

Ohio == <<"O", "h", "i", "o">>

Idaho == <<"I", "d", "a", "h", "o">>

RecordPool ==
  { Row(Taft, Utah, <<"9", "/", "2", "4">>, 1908),
    Row(Taft, Utah \o <<",", " ">> \o Ohio, <<"1", "/", "1", "1">>, 1906),
    Row(Taft, Idaho, <<"1", "2", "/", "3">>, 1906),
    Row(Congress, <<" ">> \o Ohio \o <<" ", ",", ",", " ">> \o Utah,
        <<"6", "/", "8">>, 1906),
    Row(<<"U", "S", " ">> \o Congress, Null, <<>>, 0),
    Row(Ford, <<" ">>, Null, YearNull),
    Row(Ford, <<>>, <<"9">>, 1910),
    Row(<<"C", "o", "n", "g", "r", "e", "s">>, Iowa,
        <<"2", "/", "2", "9", "/", "1", "9", "0", "8">>, 1908) }

\* the tables of at most n rows
Tables(n) ==
  UNION {[1..k -> RecordPool] : k \in 0..n}

\* SELECT * FROM monuments
SelectAll(t) == t

\* SELECT * FROM monuments WHERE pres_or_congress = ?
SelectByPresident(t, id) == SelectSeq(t, LAMBDA r : r.pres_or_congress = id)

\* ASCII lower case, as LIKE folds it
Lower(c) ==
  IF Code("A") <= Code(c) /\ Code(c) <= Code("Z")
  THEN Chars[Code(c) - Code("A") + Code("a")] ELSE c

LowerStr(s) == [i \in 1..Len(s) |-> Lower(s[i])]

\* a query that matches whole trimmed fragments of the region list
SelectByStateExact(t, abbr) ==
  SelectSeq(t, LAMBDA r : /\ r.states # Null
                          /\ \E piece \in Range(Split(r.states, ",")) :
                                Trim(piece) = abbr)

\* SELECT * FROM monuments WHERE states LIKE '%' || ? || '%': LIKE does not
\* match NULL and ignores the case of ASCII letters
SelectByStateLike(t, abbr) ==
  SelectSeq(t, LAMBDA r : /\ r.states # Null
                          /\ Includes(LowerStr(r.states), LowerStr(abbr)))

\* SELECT * FROM monuments WHERE year = ?
\* (NaN is bound as NULL, which no row equals)
SelectByYear(t, y) ==
  SelectSeq(t, LAMBDA r : y # NaN /\ r.year # YearNull /\ r.year = y)

\* SELECT date, year FROM monuments WHERE year > 0
SelectPositiveYear(t) == SelectSeq(t, LAMBDA r : r.year # YearNull /\ r.year > 0)

\* SELECT DISTINCT year FROM monuments ORDER BY year, mapped to r.year:
\* ascending, NULL first
SelectDistinctYears(t) ==
  LET ys == {t[i].year : i \in 1..Len(t)}
      F[i \in 0..Cardinality(ys)] ==
        IF i = 0 THEN <<>>
        ELSE LET rest == ys \ Range(F[i - 1])
             IN  Append(F[i - 1], CHOOSE y \in rest : \A z \in rest : y <= z)
  IN  F[Cardinality(ys)]

(***************************************************************************)
(* The key lists of the three dimensions.                                  *)
(***************************************************************************)
\* a filter that drops only the value "Congress" itself
NotCongressExact(name) == String(name) # Congress

\* name => !String(name).includes("Congress")
NotCongress(name) == ~Includes(String(name), Congress)

\* [...new Set(all.map(r => r.pres_or_congress))].filter(...).sort()
presidents(all) ==
  DefaultSort(SelectSeq(SetOf([i \in 1..Len(all) |-> all[i].pres_or_congress]),
                        NotCongress))

\* the fragments without the trim
StateFragmentsNoTrim(r) ==
  FilterNonEmpty(Split(String(OrEmpty(r.states)), ","))

\* String(r.states || "").split(",").map(s => s.trim()).filter(Boolean)
StateFragments(r) ==
  LET parts == Split(String(OrEmpty(r.states)), ",")
  IN  FilterNonEmpty([i \in 1..Len(parts) |-> Trim(parts[i])])

\* [...new Set(all.flatMap(...))].sort()
states(all) ==
  DefaultSort(SetOf(Flatten([i \in 1..Len(all) |-> StateFragments(all[i])])))

years(t) == SelectDistinctYears(t)

(***************************************************************************)
(* Previous / next.                                                        *)
(***************************************************************************)
\* undefined where the keys are numbers
YearUndefined == -2

\* Array.prototype.indexOf: 0-based, -1 when absent
IndexOf(list, key) ==
  IF \E i \in 1..Len(list) : list[i] = key
  THEN (CHOOSE i \in 1..Len(list) :
          list[i] = key /\ \A j \in 1..(i - 1) : list[j] # key) - 1
  ELSE -1

\* a % n of JavaScript: the sign of the dividend, NaN for n = 0
JsRem(a, n) ==
  IF n = 0 THEN NaN
  ELSE IF a >= 0 THEN a % n ELSE 0 - ((0 - a) % n)

\* list[i], 0-based; undef stands for undefined (list[NaN] is undefined)
At(list, i, undef) == IF 0 <= i /\ i < Len(list) THEN list[i + 1] ELSE undef

\* previous without the "+ list.length"
prevOfNoLength(list, key, undef) ==
  At(list, JsRem(IndexOf(list, key) - 1, Len(list)), undef)

\* list[(idx - 1 + list.length) % list.length]
prevOf(list, key, undef) ==
  At(list, JsRem(IndexOf(list, key) - 1 + Len(list), Len(list)), undef)

\* next without the wrap-around
nextOfNoWrap(list, key, undef) == At(list, IndexOf(list, key) + 1, undef)

\* list[(idx + 1) % list.length]
nextOf(list, key, undef) ==
  At(list, JsRem(IndexOf(list, key) + 1, Len(list)), undef)


(***************************************************************************)
(* Requests and responses.                                                 *)
(***************************************************************************)
\* the values of :pres_id, :abbr and :year that requests carry
PresParams ==
  {RecordPool_r.pres_or_congress : RecordPool_r \in RecordPool}
    \cup {<<"T", "a", "f">>}

StateParams ==
  {Utah, Ohio, Idaho, Iowa, <<"I", "d", "a">>,
   <<"u", "t", "a", "h">>, <<"N", "Y">>}

YearParams ==
  {<<"1", "9", "0", "6">>, <<"1", "9", "0", "7">>, <<"1", "9", "0", "8">>,
   <<"1", "9", "1", "0">>, <<"0">>, <<"n", "u", "l", "l">>}

\* a response: the route that answered, the HTTP status, the text or
\* template sent, the request parameter, the rows of the table (data), the
\* key list the handler derived (keys), the previous and next link targets,
\* the redirect target and the chart of the home page
Response(route, status, body, param, data, keys, prev, next, location, labels, counts) ==
  [route |-> route, status |-> status, body |-> body, param |-> param,
   data |-> data, keys |-> keys, prev |-> prev, next |-> next,
   location |-> location, years |-> labels, yearCounts |-> counts]

NoResponse ==
  Response("none", 0, "", <<>>, <<>>, <<>>, <<>>, <<>>, <<>>, <<>>, <<>>)

\* res.status(404).type("text").send(message)
NotFound(route, message, param, keys) ==
  Response(route, 404, message, param, <<>>, keys, <<>>, <<>>, <<>>, <<>>, <<>>)

\* res.redirect(location)
Redirect(route, keys, location) ==
  Response(route, 302, "redirect", <<>>, <<>>, keys, <<>>, <<>>, location,
           <<>>, <<>>)

\* sendRender(fileName, res, {...}) with the template present
sendRender(route, fileName, param, data, keys, prev, next) ==
  Response(route, 200, fileName, param, data, keys, prev, next, <<>>,
           <<>>, <<>>)

\* an exception thrown by a handler: Express answers 500
Thrown(route) ==
  Response(route, 500, "TypeError", <<>>, <<>>, <<>>, <<>>, <<>>, <<>>,
           <<>>, <<>>)

(***************************************************************************)
(* The cumulative chart of the home page.                                  *)
(***************************************************************************)
Last(s) == s[Len(s)]

\* an "if" in place of the "while": at most one year is pushed
IfFill(st, target) ==
  LET n == IF st.currentYear < target THEN 1 ELSE 0
  IN  [st EXCEPT !.currentYear = @ + n,
                 !.years = @ \o [k \in 1..n |-> st.currentYear + k],
                 !.yearCounts = @ \o [k \in 1..n |-> st.accum]]

\* while (currentYear < entry.year) { currentYear++;
\*   years.push(currentYear); yearCounts.push(accum); }
WhileFill(st, target) ==
  LET n == IF st.currentYear < target THEN target - st.currentYear ELSE 0
  IN  [st EXCEPT !.currentYear = @ + n,
                 !.years = @ \o [k \in 1..n |-> st.currentYear + k],
                 !.yearCounts = @ \o [k \in 1..n |-> st.accum]]

\* the count stored before the increment
AccumulateStale(st) ==
  [st EXCEPT !.accum = @ + 1,
             !.yearCounts = IF Len(@) = 0 THEN @
                            ELSE [@ EXCEPT ![Len(@)] = st.accum]]

\* accum++; yearCounts[yearCounts.length - 1] = accum (with no element,
\* the assignment sets a property and the array stays empty)
Accumulate(st) ==
  [st EXCEPT !.accum = @ + 1,
             !.yearCounts = IF Len(@) = 0 THEN @
                            ELSE [@ EXCEPT ![Len(@)] = st.accum + 1]]

\* the loop over the sorted rows: currentYear, accum, years, yearCounts
\* after the first i rows
ChartLoop(data) ==
  LET F[i \in 0..Len(data)] ==
        IF i = 0
        THEN [currentYear |-> data[1].year - 1, accum |-> 0,
              years |-> <<>>, yearCounts |-> <<>>]
        ELSE
          LET st    == F[i - 1]
              entry == data[i]
          IN  IF Len(st.years) = 0 \/ Last(st.years) # entry.year
              THEN Accumulate(WhileFill(st, entry.year))
              ELSE Accumulate(st)
  IN  F[Len(data)]

\* the response of app.get("/") for the sorted rows data
HomeChart(data) ==
  IF Len(data) = 0 THEN Thrown("/")
  ELSE Response("/", 200, "index.html", <<>>, data, <<>>, <<>>, <<>>,
                <<>>, ChartLoop(data).years, ChartLoop(data).yearCounts)

\* app.get("/")
HomeResponse(t) == HomeChart(ArraySort(SelectPositiveYear(t), "sortOldToNew"))

(***************************************************************************)
(* The index and detail routes.                                            *)
(***************************************************************************)
\* the response of an index route for the key list keys
IndexResponse(route, message, keys) ==
  IF Len(keys) = 0 THEN NotFound(route, message, <<>>, keys)
  ELSE Redirect(route, keys, keys[1])

\* a detail route without the "no data" answer: the page is always rendered
DetailResponseAlwaysRender(route, message, fileName, param, key, data, keys, undef) ==
  sendRender(route, fileName, param, ArraySort(data, "sortNewToOld"),
             keys, prevOf(keys, key, undef), nextOf(keys, key, undef))

\* the response of a detail route for the selected rows data, the key list
\* keys and the requested key
DetailResponse(route, message, fileName, param, key, data, keys, undef) ==
  IF Len(data) = 0 THEN NotFound(route, message, param, <<>>)
  ELSE sendRender(route, fileName, param, ArraySort(data, "sortNewToOld"),
                  keys, prevOf(keys, key, undef), nextOf(keys, key, undef))

\* app.get("/president"), first definition: data.sort(sortNewToOld) and a
\* redirect to data[0].pres_or_congress; data[0] of an empty result is
\* undefined and reading its property throws
FirstPresidentIndexRedirect(route, data) ==
  IF Len(data) = 0 THEN Thrown(route)
  ELSE Redirect(route, <<>>, data[1].pres_or_congress)

FirstPresidentIndexResponse(t) ==
  FirstPresidentIndexRedirect("/president (first definition)",
                              ArraySort(SelectAll(t), "sortNewToOld"))

\* app.get("/president")
PresidentIndexResponse(t) ==
  IndexResponse("/president", "No president data found",
                presidents(SelectAll(t)))

\* app.get("/president/:pres_id")
PresidentResponseOf(PRES_ID, data, t) ==
  DetailResponse("/president/:pres_id", "Error: no data for president",
                 "president.html", PRES_ID, PRES_ID,
                 data, presidents(SelectAll(t)), Undefined)

PresidentResponse(t, PRES_ID) ==
  PresidentResponseOf(PRES_ID, SelectByPresident(t, PRES_ID), t)

\* app.get("/states")
StatesIndexResponse(t) ==
  IndexResponse("/states", "No state data found", states(SelectAll(t)))

\* app.get("/state/:abbr")
StateResponseOf(abbr, data, t) ==
  DetailResponse("/state/:abbr", "Error: no data for state", "state.html",
                 abbr, abbr, data, states(SelectAll(t)), Undefined)

StateResponse(t, abbr) ==
  StateResponseOf(abbr, SelectByStateLike(t, abbr), t)

\* app.get("/years")
YearsIndexResponse(t) ==
  IndexResponse("/years", "No year data found", years(t))

\* app.get("/year/:year"): year = Number(req.params.year)
YearResponseOf(param, data, t) ==
  DetailResponse("/year/:year", "Error: no data for year", "year.html",
                 param, Number(param), data, years(t), YearUndefined)

YearResponse(t, param) ==
  YearResponseOf(param, SelectByYear(t, Number(param)), t)

(***************************************************************************)
(* The state machine: the table is opened read-only; a request is handled  *)
(* in one synchronous step that builds its response (resp), and the        *)
(* response is then sent, after which the next request is handled.         *)
(***************************************************************************)
\* a detail request between its two queries: the rows its first query
\* selected, and the table they were selected from
Request(phase, route, param, data, snapshot) ==
  [phase |-> phase, route |-> route, param |-> param, data |-> data,
   snapshot |-> snapshot]

NoRequest == Request("none", "none", <<>>, <<>>, <<>>)

Init ==
  /\ db \in Tables(MaxRecords)
  /\ resp = NoResponse
  /\ req = NoRequest

GetHome ==
  /\ resp = NoResponse
  /\ resp' = HomeResponse(db)
  /\ UNCHANGED <<db, req>>

GetPresidentIndex ==
  /\ resp = NoResponse
  /\ resp' = PresidentIndexResponse(db)
  /\ UNCHANGED <<db, req>>

GetFirstPresidentIndex ==
  /\ resp = NoResponse
  /\ resp' = FirstPresidentIndexResponse(db)
  /\ UNCHANGED <<db, req>>

GetPresident ==
  \E id \in PresParams :
    /\ resp = NoResponse
    /\ resp' = PresidentResponse(db, id)
    /\ UNCHANGED <<db, req>>

GetStatesIndex ==
  /\ resp = NoResponse
  /\ resp' = StatesIndexResponse(db)
  /\ UNCHANGED <<db, req>>

GetState ==
  \E abbr \in StateParams :
    /\ resp = NoResponse
    /\ resp' = StateResponse(db, abbr)
    /\ UNCHANGED <<db, req>>

GetYearsIndex ==
  /\ resp = NoResponse
  /\ resp' = YearsIndexResponse(db)
  /\ UNCHANGED <<db, req>>

GetYear ==
  \E y \in YearParams :
    /\ resp = NoResponse
    /\ resp' = YearResponse(db, y)
    /\ UNCHANGED <<db, req>>

\* res.send / res.redirect / res.end: the response leaves the server
SendResponse ==
  /\ resp # NoResponse
  /\ resp' = NoResponse
  /\ req' = NoRequest
  /\ UNCHANGED db

Next ==
  \/ GetHome
  \/ GetPresidentIndex
  \/ GetFirstPresidentIndex
  \/ GetPresident
  \/ GetStatesIndex
  \/ GetState
  \/ GetYearsIndex
  \/ GetYear
  \/ SendResponse

Spec == Init /\ [][Next]_vars

(***************************************************************************)
(* The detail handlers statement by statement.  The connection is          *)
(* read-only, but the database file can be rewritten by another process;   *)
(* each prepared statement runs in a read transaction of its own, so the   *)
(* file can change between the query that selects the rows and the query   *)
(* that the key list is built from.                                        *)
(***************************************************************************)
\* the first query answered: 404 for no row, else the handler goes on
Selected(route, message, param, data, t) ==
  IF Len(data) = 0
  THEN /\ resp' = NotFound(route, message, param, <<>>)
       /\ req' = Request("answered", route, param, data, t)
  ELSE /\ resp' = NoResponse
       /\ req' = Request("selected", route, param, data, t)

InitReplace ==
  /\ db \in Tables(MaxSnapshotRecords)
  /\ resp = NoResponse
  /\ req = NoRequest

\* another process commits a new content of monuments.sqlite3
ReplaceData ==
  /\ db' \in Tables(MaxSnapshotRecords) \ {db}
  /\ UNCHANGED <<resp, req>>

SelectPresident ==
  \E id \in PresParams :
    /\ resp = NoResponse /\ req.phase = "none"
    /\ Selected("/president/:pres_id", "Error: no data for president", id,
                SelectByPresident(db, id), db)
    /\ UNCHANGED db

RenderPresident ==
  /\ req.phase = "selected" /\ req.route = "/president/:pres_id"
  /\ resp' = PresidentResponseOf(req.param, req.data, db)
  /\ req' = [req EXCEPT !.phase = "answered"]
  /\ UNCHANGED db

SelectState ==
  \E abbr \in StateParams :
    /\ resp = NoResponse /\ req.phase = "none"
    /\ Selected("/state/:abbr", "Error: no data for state", abbr,
                SelectByStateLike(db, abbr), db)
    /\ UNCHANGED db

RenderState ==
  /\ req.phase = "selected" /\ req.route = "/state/:abbr"
  /\ resp' = StateResponseOf(req.param, req.data, db)
  /\ req' = [req EXCEPT !.phase = "answered"]
  /\ UNCHANGED db

SelectYear ==
  \E y \in YearParams :
    /\ resp = NoResponse /\ req.phase = "none"
    /\ Selected("/year/:year", "Error: no data for year", y,
                SelectByYear(db, Number(y)), db)
    /\ UNCHANGED db

RenderYear ==
  /\ req.phase = "selected" /\ req.route = "/year/:year"
  /\ resp' = YearResponseOf(req.param, req.data, db)
  /\ req' = [req EXCEPT !.phase = "answered"]
  /\ UNCHANGED db

NextReplace ==
  \/ SelectPresident
  \/ RenderPresident
  \/ SelectState
  \/ RenderState
  \/ SelectYear
  \/ RenderYear
  \/ ReplaceData
  \/ SendResponse

SpecReplace == InitReplace /\ [][NextReplace]_vars


(***************************************************************************)
(* Properties.                                                             *)
(***************************************************************************)
\* the responses whose handler derived the key list of a dimension
PresidentKeysDerived ==
  \/ resp.route = "/president"
  \/ resp.route = "/president/:pres_id" /\ resp.status = 200

StateKeysDerived ==
  \/ resp.route = "/states"
  \/ resp.route = "/state/:abbr" /\ resp.status = 200

YearKeysDerived ==
  \/ resp.route = "/years"
  \/ resp.route = "/year/:year" /\ resp.status = 200

\* a detail page was rendered: the handler selected rows, sorted them and
\* computed previous / next
DetailRendered ==
  /\ resp.route \in {"/president/:pres_id", "/state/:abbr", "/year/:year"}
  /\ resp.status = 200

\* the key a detail request asks for
RequestedKey ==
  IF resp.route = "/year/:year" THEN Number(resp.param) ELSE resp.param

\* undefined among the keys of the response's dimension
UndefinedKey ==
  IF resp.route = "/year/:year" THEN YearUndefined ELSE Undefined

\* lexicographic order of text by character code
RECURSIVE LexLess(_, _)
LexLess(a, b) ==
  IF b = <<>> THEN FALSE
  ELSE IF a = <<>> THEN TRUE
  ELSE IF Head(a) = Head(b) THEN LexLess(Tail(a), Tail(b))
  ELSE Code(Head(a)) < Code(Head(b))

\* order of the year column: an unset (NULL) year before every number
YearLess(a, b) == a # b /\ (a = YearNull \/ (b # YearNull /\ a < b))

\* C1: for every non-empty table and every dimension, the derived key list
\* is strictly ascending and free of duplicates: lexicographic for president
\* and state names, numeric for years (an unset year first).
C1_KeysStrictlyAscending ==
  Len(db) >= 1 =>
    /\ (PresidentKeysDerived \/ StateKeysDerived) =>
         /\ \A i \in 1..(Len(resp.keys) - 1) :
              LexLess(resp.keys[i], resp.keys[i + 1])
         /\ \A i, j \in 1..Len(resp.keys) :
              i # j => resp.keys[i] # resp.keys[j]
    /\ YearKeysDerived =>
         /\ \A i \in 1..(Len(resp.keys) - 1) :
              YearLess(resp.keys[i], resp.keys[i + 1])
         /\ \A i, j \in 1..Len(resp.keys) :
              i # j => resp.keys[i] # resp.keys[j]

\* a president page answered from a table in which a president occurs in
\* two rows and is not first in the alphabet
C1_Witness ==
  /\ resp.route = "/president/:pres_id" /\ resp.status = 200
  /\ Len(resp.keys) >= 2
  /\ \E i, j \in 1..Len(db) :
       i # j /\ db[i].pres_or_congress = db[j].pres_or_congress
             /\ db[i].pres_or_congress = resp.keys[2]

\* the text contains "Congress": some prefix, the marker, some suffix
HasMarker(k) ==
  \E u \in 0..Len(k) :
     /\ u + 8 <= Len(k)
     /\ \A c \in 1..8 : k[u + c] = Congress[c]

\* C2: no key of the president key list contains "Congress", and every
\* owner value of the table that does not contain it is a key of the list.
C2_PresidentKeysExcludeCongress ==
  PresidentKeysDerived =>
    /\ \A i \in 1..Len(resp.keys) : ~HasMarker(resp.keys[i])
    /\ \A i \in 1..Len(db) :
         ~HasMarker(db[i].pres_or_congress) =>
            \E j \in 1..Len(resp.keys) : resp.keys[j] = db[i].pres_or_congress

\* the table holds an owner that contains the marker without being it, and
\* an owner that lacks its last letter; the president list was derived
C2_Witness ==
  /\ resp.route = "/president" /\ resp.status = 302
  /\ \E i \in 1..Len(db) : db[i].pres_or_congress = <<"U", "S", " ">> \o Congress
  /\ \E i \in 1..Len(db) :
        db[i].pres_or_congress = <<"C", "o", "n", "g", "r", "e", "s">>
  /\ \E j \in 1..Len(resp.keys) :
        resp.keys[j] = <<"C", "o", "n", "g", "r", "e", "s">>

\* the key reached from k by following "next" i times in the key list
FollowNext(list, k, i, undef) ==
  LET F[m \in 0..i] == IF m = 0 THEN k ELSE nextOf(list, F[m - 1], undef)
  IN  F[i]

\* C3: in the key list of a rendered detail page (length n >= 1), following
\* "next" n times from any key k of the list returns to k, and the n keys
\* visited on the way are exactly the keys of the list.
C3_NextIsCyclicBijection ==
  (DetailRendered /\ Len(resp.keys) >= 1) =>
    LET list == resp.keys
        n    == Len(resp.keys)
    IN  \A p \in 1..n :
          /\ FollowNext(list, list[p], n, UndefinedKey) = list[p]
          /\ {FollowNext(list, list[p], m, UndefinedKey) : m \in 1..n}
               = Range(list)

\* a state page for the last of at least three state keys: its next link
\* wraps to the first key
C3_Witness ==
  /\ resp.route = "/state/:abbr" /\ resp.status = 200
  /\ Len(resp.keys) >= 3
  /\ resp.param = resp.keys[Len(resp.keys)]
  /\ resp.next = resp.keys[1]

\* C4: for a requested key at (0-based) index i of a key list of length
\* n >= 1, previous is the element at (i - 1 + n) mod n and next the element
\* at (i + 1) mod n: the first key's previous is the last key, the last
\* key's next is the first, and in a one-element list both are the key.
C4_PrevNextWrap ==
  (DetailRendered /\ \E p \in 1..Len(resp.keys) : resp.keys[p] = RequestedKey)
    =>
    LET n == Len(resp.keys)
        p == CHOOSE q \in 1..n : resp.keys[q] = RequestedKey
        i == p - 1
    IN  /\ resp.prev = resp.keys[((i - 1 + n) % n) + 1]
        /\ resp.next = resp.keys[((i + 1) % n) + 1]
        /\ i = 0 => resp.prev = resp.keys[n]
        /\ i = n - 1 => resp.next = resp.keys[1]
        /\ n = 1 => resp.prev = RequestedKey /\ resp.next = RequestedKey

\* a year page for the first of at least two year keys: its previous link
\* is the last key
C4_Witness ==
  /\ resp.route = "/year/:year" /\ resp.status = 200
  /\ Len(resp.keys) >= 2
  /\ Number(resp.param) = resp.keys[1]
  /\ resp.prev = resp.keys[Len(resp.keys)]


\* the calendar date a date text of the table stands for, as <<month, day>>,
\* with month 1 and day 1 where the text does not give them
MonthDay(d) ==
  CASE d = Null -> <<1, 1>>
    [] d = <<>> -> <<1, 1>>
    [] d = <<"9">> -> <<9, 1>>
    [] d = <<"9", "/", "2", "4">> -> <<9, 24>>
    [] d = <<"1", "/", "1", "1">> -> <<1, 11>>
    [] d = <<"1", "2", "/", "3">> -> <<12, 3>>
    [] d = <<"6", "/", "8">> -> <<6, 8>>
    [] d = <<"2", "/", "2", "9", "/", "1", "9", "0", "8">> -> <<2, 29>>

\* the (year, month, day) triple of a row, year 0 where it is unset
Triple(r) ==
  <<IF r.year = YearNull THEN 0 ELSE r.year, MonthDay(r.date)[1],
    MonthDay(r.date)[2]>>

TripleGeq(a, b) ==
  \/ a[1] > b[1]
  \/ a[1] = b[1] /\ a[2] > b[2]
  \/ a[1] = b[1] /\ a[2] = b[2] /\ a[3] >= b[3]

\* the rows of the example: years 1908, 1906, 1906 with dates 9/24, 1/11, 12/3
Example1908 == Row(Taft, Utah, <<"9", "/", "2", "4">>, 1908)

Example1906Jan == Row(Taft, Utah \o <<",", " ">> \o Ohio, <<"1", "/", "1", "1">>, 1906)

Example1906Dec == Row(Taft, Idaho, <<"1", "2", "/", "3">>, 1906)

\* C5: the rows of a detail page are ordered newest first: the (year, month,
\* day) triple of every row is >= that of the row after it, and the rows
\* 1908 9/24, 1906 1/11, 1906 12/3 come out as 1908/9/24, 1906/12/3,
\* 1906/1/11 whatever their order in the table.
C5_DetailNewestFirst ==
  /\ DetailRendered =>
       \A i \in 1..(Len(resp.data) - 1) :
          TripleGeq(Triple(resp.data[i]), Triple(resp.data[i + 1]))
  /\ ( /\ resp.route = "/president/:pres_id" /\ resp.status = 200
       /\ resp.param = Taft
       /\ Len(db) = 3
       /\ Range(db) = {Example1908, Example1906Jan, Example1906Dec} )
     => resp.data = <<Example1908, Example1906Dec, Example1906Jan>>

\* the president page of the example, from a table that holds its rows
\* oldest first
C5_Witness ==
  /\ resp.route = "/president/:pres_id" /\ resp.status = 200
  /\ db = <<Example1906Jan, Example1906Dec, Example1908>>
  /\ resp.data = <<Example1908, Example1906Dec, Example1906Jan>>

\* the date text has no day: it is not empty and has no "/"
LacksDay(d) == d # Null /\ d # <<>> /\ \A i \in 1..Len(d) : d[i] # "/"

\* the rows a handler sorted: those of a detail page (newest first) or of
\* the home page's chart (oldest first)
RowsSorted == DetailRendered \/ (resp.route = "/" /\ resp.status = 200)

ChartBuilt == resp.route = "/" /\ resp.status = 200

\* the positive years of the table
PositiveYears == {db[i].year : i \in {j \in 1..Len(db) : db[j].year > 0}}

\* C7: the cumulative timeline of the home page has one entry for every
\* integer year from the least to the greatest positive year of the table,
\* ascending, without gap or repetition, and its counts never decrease.
C7_TimelineCoversYears ==
  ChartBuilt =>
    /\ Len(resp.years) = MaxOfSet(PositiveYears) - MinOfSet(PositiveYears) + 1
    /\ Len(resp.yearCounts) = Len(resp.years)
    /\ \A i \in 1..Len(resp.years) :
          resp.years[i] = MinOfSet(PositiveYears) + i - 1
    /\ \A i \in 1..(Len(resp.yearCounts) - 1) :
          resp.yearCounts[i] <= resp.yearCounts[i + 1]

\* a chart over at least three years, one of them without a row
C7_Witness ==
  /\ ChartBuilt
  /\ Len(resp.years) >= 3
  /\ \E i \in 1..Len(resp.years) : resp.years[i] \notin PositiveYears

\* the number of rows with a positive year that is <= y
RowsUpTo(y) ==
  Cardinality({j \in 1..Len(db) : db[j].year > 0 /\ db[j].year <= y})

\* C8: for every year y of the cumulative timeline the count paired with y
\* is the number of rows with a positive year <= y; a year without rows
\* repeats the count of the year before it, and the last count is the
\* number of rows with a positive year.
C8_TimelineCounts ==
  ChartBuilt =>
    /\ \A i \in 1..Len(resp.years) :
          /\ i <= Len(resp.yearCounts)
          /\ resp.yearCounts[i] = RowsUpTo(resp.years[i])
    /\ \A i \in 2..Len(resp.years) :
          resp.years[i] \notin PositiveYears =>
             resp.yearCounts[i] = resp.yearCounts[i - 1]
    /\ resp.yearCounts[Len(resp.yearCounts)] =
          Cardinality({j \in 1..Len(db) : db[j].year > 0})

\* a chart in which a year holds two rows and a later year none
C8_Witness ==
  /\ ChartBuilt
  /\ \E i \in 1..(Len(resp.yearCounts) - 1) :
        /\ resp.yearCounts[i] >= 2
        /\ resp.years[i + 1] \notin PositiveYears
        /\ resp.yearCounts[i + 1] = resp.yearCounts[i]

\* C9: a row whose year is 0 or unset contributes no key to the year
\* dimension (0 is never in the year key list of /years or /year/:year) and
\* no entry or count to the cumulative timeline.
C9_ZeroYearExcluded ==
  /\ YearKeysDerived =>
       \A i \in 1..Len(resp.keys) :
          resp.keys[i] # 0 /\ resp.keys[i] # YearNull
  /\ ChartBuilt =>
       /\ \A i \in 1..Len(resp.years) : resp.years[i] > 0
       /\ resp.yearCounts[Len(resp.yearCounts)] =
             Cardinality({j \in 1..Len(db) : db[j].year > 0})

\* the region text of a row, empty where the column is unset
RegionText(r) == IF r.states = Null THEN <<>> ELSE r.states

\* the text without its leading and trailing blanks: the part from the
\* first to the last character that is not a blank
Stripped(u) ==
  IF \A i \in 1..Len(u) : u[i] = " " THEN <<>>
  ELSE CHOOSE v \in {SubSeq(u, a, b) : a, b \in 1..Len(u)} :
          /\ v # <<>> /\ v[1] # " " /\ v[Len(v)] # " "
          /\ \E a \in 0..Len(u) :
                /\ a + Len(v) <= Len(u)
                /\ SubSeq(u, a + 1, a + Len(v)) = v
                /\ \A i \in 1..a : u[i] = " "
                /\ \A i \in (a + Len(v) + 1)..Len(u) : u[i] = " "

\* the comma-delimited pieces of a text: the stretches without a comma that
\* a comma or an end of the text bounds on either side
Pieces(s) ==
  {SubSeq(s, a, b) : <<a, b>> \in
     {ab \in (1..(Len(s) + 1)) \X (0..Len(s)) :
        /\ ab[1] <= ab[2] + 1
        /\ ab[1] = 1 \/ s[ab[1] - 1] = ","
        /\ ab[2] = Len(s) \/ s[ab[2] + 1] = ","
        /\ \A i \in ab[1]..ab[2] : s[i] # ","}}

\* the keys a row contributes to the state dimension
RegionKeys(r) == {Stripped(piece) : piece \in Pieces(RegionText(r))} \ {<<>>}

\* C10: the state key list is exactly the set of non-empty, trimmed
\* fragments of the rows' comma-separated region lists: a region list that
\* is unset, empty or blank contributes no key, and no key is empty or
\* begins or ends with a blank.
C10_StateKeysAreTrimmedFragments ==
  StateKeysDerived =>
    /\ Range(resp.keys) = UNION {RegionKeys(db[i]) : i \in 1..Len(db)}
    /\ \A i \in 1..Len(resp.keys) :
          /\ resp.keys[i] # <<>>
          /\ resp.keys[i][1] # " "
          /\ resp.keys[i][Len(resp.keys[i])] # " "
    /\ (\A i \in 1..Len(db) : db[i].states \in {Null, <<>>, <<" ">>})
          => resp.keys = <<>>

\* the state list derived from a table with a region list that has blanks
\* around its names and an empty fragment, and a row without region
C10_Witness ==
  /\ resp.route = "/states" /\ resp.status = 302
  /\ \E i \in 1..Len(db) :
        db[i].states = <<" ">> \o Ohio \o <<" ", ",", ",", " ">> \o Utah
  /\ \E i \in 1..Len(db) : db[i].states \in {Null, <<>>, <<" ">>}
  /\ resp.keys = <<Ohio, Utah>>


\* a detail route answered (with a page or with "not found")
DetailAnswered ==
  resp.route \in {"/president/:pres_id", "/state/:abbr", "/year/:year"}

\* the text s contains the text k at some position, character for character
ContainsText(s, k) ==
  \E u \in 0..(Len(s) - Len(k)) : \A c \in 1..Len(k) : s[u + c] = k[c]

\* the characters a and b are the same letter in either case, or equal
SameIgnoringCase(a, b) ==
  \/ a = b
  \/ /\ Code("A") <= Code(a) /\ Code(a) <= Code("Z")
     /\ Code(b) = Code(a) + (Code("a") - Code("A"))
  \/ /\ Code("A") <= Code(b) /\ Code(b) <= Code("Z")
     /\ Code(a) = Code(b) + (Code("a") - Code("A"))

\* the text s contains the text k at some position, ignoring the case of
\* ASCII letters
ContainsIgnoringCase(s, k) ==
  \E u \in 0..(Len(s) - Len(k)) :
     \A c \in 1..Len(k) : SameIgnoringCase(s[u + c], k[c])

\* the row matches the requested key of the answered detail route, the
\* state dimension by exact (case-sensitive) substring
MatchesKey(r) ==
  CASE resp.route = "/president/:pres_id" -> r.pres_or_congress = resp.param
    [] resp.route = "/state/:abbr" ->
         r.states # Null /\ ContainsText(r.states, resp.param)
    [] resp.route = "/year/:year" ->
         Number(resp.param) # NaN /\ r.year = Number(resp.param)

\* the same, the state dimension ignoring the case of ASCII letters
MatchesKeyIgnoringCase(r) ==
  IF resp.route = "/state/:abbr"
  THEN r.states # Null /\ ContainsIgnoringCase(r.states, resp.param)
  ELSE MatchesKey(r)

\* the number of positions of seq that hold v
Occurrences(seq, v) == Cardinality({i \in 1..Len(seq) : seq[i] = v})

NoDataMessage ==
  CASE resp.route = "/president/:pres_id" -> "Error: no data for president"
    [] resp.route = "/state/:abbr" -> "Error: no data for state"
    [] resp.route = "/year/:year" -> "Error: no data for year"

PageTemplate ==
  CASE resp.route = "/president/:pres_id" -> "president.html"
    [] resp.route = "/state/:abbr" -> "state.html"
    [] resp.route = "/year/:year" -> "year.html"

\* some row of the table matches the requested key
SomeRowMatches == \E i \in 1..Len(db) : MatchesKeyIgnoringCase(db[i])

C13_RequestedKeyInKeyList ==
  DetailRendered =>
    /\ \E p \in 1..Len(resp.keys) : resp.keys[p] = RequestedKey
    /\ IndexOf(resp.keys, RequestedKey) # -1


\* an index route was answered
IndexAnswered ==
  resp.route \in {"/president", "/president (first definition)", "/states",
                  "/years"}

PresidentIndexAnswered ==
  resp.route \in {"/president", "/president (first definition)"}

\* the keys the table holds in the dimension of the answered index route
DimensionKeys ==
  CASE PresidentIndexAnswered ->
         {db[i].pres_or_congress : i \in 1..Len(db)}
           \ {db[i].pres_or_congress : i \in
                {j \in 1..Len(db) : HasMarker(db[j].pres_or_congress)}}
    [] resp.route = "/states" -> UNION {RegionKeys(db[i]) : i \in 1..Len(db)}
    [] resp.route = "/years" -> {db[i].year : i \in 1..Len(db)}

\* the key a comes before the key b in the order of the dimension
KeyLess(a, b) ==
  IF resp.route = "/years" THEN YearLess(a, b) ELSE LexLess(a, b)

NoDataFoundMessage ==
  CASE PresidentIndexAnswered -> "No president data found"
    [] resp.route = "/states" -> "No state data found"
    [] resp.route = "/years" -> "No year data found"

\* C14: on each index route, when the table holds no key of the dimension
\* the response is the 404 "no data found" and the handler does not fail;
\* otherwise the response is a redirect to the first key of the dimension in
\* its order (for /president a name without "Congress").
C14_IndexRedirectsToFirstKey ==
  IndexAnswered =>
    /\ resp.status # 500
    /\ DimensionKeys = {} =>
         resp.status = 404 /\ resp.body = NoDataFoundMessage
    /\ DimensionKeys # {} =>
         /\ resp.status = 302
         /\ resp.location \in DimensionKeys
         /\ \A k \in DimensionKeys :
              k = resp.location \/ KeyLess(resp.location, k)
         /\ PresidentIndexAnswered => ~HasMarker(resp.location)


\* C16: on every rendered detail page the previous and the next link target
\* are keys of the key list of the dimension and never undefined, whatever
\* key was requested (a key outside the list, an empty list included).
C16_LinksAreKeys ==
  DetailRendered =>
    /\ \E p \in 1..Len(resp.keys) : resp.keys[p] = resp.prev
    /\ \E p \in 1..Len(resp.keys) : resp.keys[p] = resp.next
    /\ resp.prev # UndefinedKey
    /\ resp.next # UndefinedKey


\* the key list of the table the rows of the request were selected from
SnapshotKeys ==
  CASE req.route = "/president/:pres_id" -> presidents(SelectAll(req.snapshot))
    [] req.route = "/state/:abbr" -> states(SelectAll(req.snapshot))
    [] req.route = "/year/:year" -> years(req.snapshot)

\* C15: within one detail request the rows and the key list come from the
\* same content of the table: when the table is replaced while the request
\* is handled and the requested key is a key of the content its rows were
\* selected from, the page is still built on the key list of that content,
\* and its previous and next keys belong to that list.
C15_SingleSnapshot ==
  (DetailRendered /\ req.phase = "answered"
     /\ \E p \in 1..Len(SnapshotKeys) : SnapshotKeys[p] = RequestedKey)
    =>
    /\ resp.keys = SnapshotKeys
    /\ \E p \in 1..Len(SnapshotKeys) : SnapshotKeys[p] = resp.prev
    /\ \E p \in 1..Len(SnapshotKeys) : SnapshotKeys[p] = resp.next

====
